---- MODULE Spec2Model ----
(***************************************************************************)
(* A model of the decision core of Poker.py: the preflop percentile table, *)
(* the Monte Carlo equity estimators, the range / fold-equity / EV         *)
(* heuristics and the action-selection policy choose_bot_action.           *)
(*                                                                         *)
(* Python floats are modelled as exact rationals <<num, den>> (den > 0,    *)
(* lowest terms); float rounding is outside the model.  A card code such   *)
(* as 'AS' is the pair <<"A", "S">>.  An optional value is <<>> for None   *)
(* and <<v>> for the value v.                                              *)
(***************************************************************************)
EXTENDS Integers, Sequences, FiniteSets, TLC

None == <<>>
Some(v) == <<v>>

Max(a, b) == IF a >= b THEN a ELSE b
Min(a, b) == IF a <= b THEN a ELSE b
Abs(a) == IF a >= 0 THEN a ELSE -a

RECURSIVE GCD(_, _)
GCD(a, b) == IF b = 0 THEN a ELSE GCD(b, a % b)

(* ---------------- exact rationals standing for Python floats ----------- *)
Rat(n, d) ==
  LET g == GCD(Abs(n), d) IN IF g = 0 THEN <<0, 1>> ELSE <<n \div g, d \div g>>
RInt(n) == <<n, 1>>
RAdd(a, b) == Rat(a[1] * b[2] + b[1] * a[2], a[2] * b[2])
RSub(a, b) == Rat(a[1] * b[2] - b[1] * a[2], a[2] * b[2])
RMul(a, b) == Rat(a[1] * b[1], a[2] * b[2])
RLe(a, b) == a[1] * b[2] <= b[1] * a[2]
RLt(a, b) == a[1] * b[2] < b[1] * a[2]
RGe(a, b) == RLe(b, a)
RGt(a, b) == RLt(b, a)
RMax(a, b) == IF RGe(a, b) THEN a ELSE b
RMin(a, b) == IF RLe(a, b) THEN a ELSE b
\* int(x) for a float x: truncation toward zero
RTrunc(a) == IF a[1] >= 0 THEN a[1] \div a[2] ELSE -((-a[1]) \div a[2])

(* ------------------------------ card model ----------------------------- *)
RANKS == <<"2", "3", "4", "5", "6", "7", "8", "9", "T", "J", "Q", "K", "A">>
SUITS == <<"C", "D", "H", "S">>

_RANK_TO_VALUE ==
  ("2" :> 2) @@ ("3" :> 3) @@ ("4" :> 4) @@ ("5" :> 5) @@ ("6" :> 6) @@
  ("7" :> 7) @@ ("8" :> 8) @@ ("9" :> 9) @@ ("T" :> 10) @@ ("J" :> 11) @@
  ("Q" :> 12) @@ ("K" :> 13) @@ ("A" :> 14)

\* ASCII code points of the characters of a card code: the order in which
\* Python's sorted() compares code strings.
Ord ==
  ("2" :> 50) @@ ("3" :> 51) @@ ("4" :> 52) @@ ("5" :> 53) @@ ("6" :> 54) @@
  ("7" :> 55) @@ ("8" :> 56) @@ ("9" :> 57) @@ ("A" :> 65) @@ ("C" :> 67) @@
  ("D" :> 68) @@ ("H" :> 72) @@ ("J" :> 74) @@ ("K" :> 75) @@ ("Q" :> 81) @@
  ("S" :> 83) @@ ("T" :> 84)

StrLe(c1, c2) ==
  Ord[c1[1]] < Ord[c2[1]] \/ (c1[1] = c2[1] /\ Ord[c1[2]] <= Ord[c2[2]])

\* deck = [r + s for r in RANKS for s in SUITS]
_all_deck_codes ==
  [k \in 1..(Len(RANKS) * Len(SUITS)) |->
     <<RANKS[((k - 1) \div Len(SUITS)) + 1], SUITS[((k - 1) % Len(SUITS)) + 1]>>] \o <<>>

_combo_key(c1, c2) == IF StrLe(c1, c2) THEN <<c1, c2>> ELSE <<c2, c1>>

(* --------------------------- preflop range table ----------------------- *)
_preflop_strength_score(c1, c2) ==
  LET v1 == _RANK_TO_VALUE[c1[1]]
      v2 == _RANK_TO_VALUE[c2[1]]
      hi == Max(v1, v2)
      lo == Min(v1, v2)
      suited == c1[2] = c2[2]
      pair == c1[1] = c2[1]
      gap == Abs(v1 - v2)
  IN  IF pair
        THEN 100 + hi * 6
        ELSE hi * 4 + lo * 2
             + (IF suited THEN 6 ELSE 0)
             + (IF gap = 1 THEN 5 ELSE IF gap = 2 THEN 2 ELSE 0)
             + (IF hi >= 11 /\ lo >= 10 THEN 6 ELSE 0)
             + (IF hi = 14 THEN 4 ELSE 0)

\* A function over 1..n as an explicit list, so that it is computed once.
AsList(q) == q \o <<>>

\* The rows of the two nested loops, from i on: for each j > i the entry
\* (score, key) appended to combos.
RECURSIVE ComboRows(_)
ComboRows(i) ==
  IF i > Len(_all_deck_codes) THEN <<>>
  ELSE [t \in 1..(Len(_all_deck_codes) - i) |->
          [score |-> _preflop_strength_score(_all_deck_codes[i], _all_deck_codes[i + t]),
           key |-> _combo_key(_all_deck_codes[i], _all_deck_codes[i + t])]]
       \o ComboRows(i + 1)

\* combos before the sort, in append order
Combos == ComboRows(1)

Scores == AsList([k \in 1..Len(Combos) |-> Combos[k].score])

\* combos.sort(key=score): the 0-based index of append-order element k after
\* the stable ascending sort.
SortedIndex ==
  AsList([k \in 1..Len(Combos) |->
     Cardinality({m \in 1..Len(Combos) :
        Scores[m] < Scores[k] \/ (m < k /\ Scores[m] = Scores[k])})])

PctOfComboFromTop ==
  AsList([k \in 1..Len(Combos) |-> Rat(Len(Combos) - SortedIndex[k], Len(Combos))])

\* pct[key] = (idx + 1) / n, as a function from the append position
PctOfCombo ==
  AsList([k \in 1..Len(Combos) |-> Rat(SortedIndex[k] + 1, Len(Combos))])

\* position of an unordered pair of deck positions in append order
ComboPos(i, j) ==
  LET a == Min(i, j)
      b == Max(i, j)
      n == Len(_all_deck_codes)
  IN  (a - 1) * n - ((a - 1) * a) \div 2 + (b - a)

RankIndex == [r \in {RANKS[i] : i \in 1..Len(RANKS)} |-> CHOOSE i \in 1..Len(RANKS) : RANKS[i] = r]
SuitIndex == [u \in {SUITS[i] : i \in 1..Len(SUITS)} |-> CHOOSE i \in 1..Len(SUITS) : SUITS[i] = u]

IsCard(c) == c[1] \in DOMAIN RankIndex /\ c[2] \in DOMAIN SuitIndex

\* the index of card c in the deck list
DeckPos(c) == (RankIndex[c[1]] - 1) * Len(SUITS) + SuitIndex[c[2]]

\* pct.get(key, 0.0) on the dict built by _preflop_percentile_table()
PctGet(key) ==
  IF IsCard(key[1]) /\ IsCard(key[2]) /\ key[1] # key[2]
    THEN LET k == ComboPos(DeckPos(key[1]), DeckPos(key[2]))
         IN  IF Combos[k].key = key THEN PctOfCombo[k] ELSE <<0, 1>>
    ELSE <<0, 1>>

_is_in_top_fraction(c1, c2, top_frac) ==
  LET tf == RMax(<<1, 100>>, RMin(<<1, 1>>, top_frac))
  IN  RGe(PctGet(_combo_key(c1, c2)), RSub(<<1, 1>>, tf))

(* ------------------------- fold-equity heuristics ---------------------- *)
\* base = {0: 0.55, 3: 0.45, 4: 0.40, 5: 0.35}.get(board_len, 0.50)
StreetBase(board_len) ==
  CASE board_len = 0 -> <<55, 100>>
    [] board_len = 3 -> <<45, 100>>
    [] board_len = 4 -> <<40, 100>>
    [] board_len = 5 -> <<35, 100>>
    [] OTHER -> <<50, 100>>

top_frac_unclamped(board_len, required_eq, cca, pot) ==
  LET pressure == IF pot + cca > 0 THEN Rat(cca, pot + cca) ELSE <<0, 1>>
  IN  RSub(StreetBase(board_len), RMul(<<60, 100>>, pressure))

estimate_villain_top_frac(board_len, required_eq, cca, pot) ==
  LET pressure == IF pot + cca > 0 THEN Rat(cca, pot + cca) ELSE <<0, 1>>
      base == StreetBase(board_len)
      top_frac == RSub(base, RMul(<<60, 100>>, pressure))
  IN  RMax(<<10, 100>>, RMin(<<70, 100>>, top_frac))

fold_probability_size_subtracted(villain_top_frac, raise_to, pot) ==
  LET tightness == RSub(<<1, 1>>, villain_top_frac)
      r == Rat(raise_to, Max(1, pot))
      size_term == RMin(<<1, 1>>, RMul(<<35, 100>>, r))
      base == RAdd(RMul(<<40, 100>>, villain_top_frac), <<10, 100>>)
      fold_p == RSub(RSub(base, size_term), RMul(<<25, 100>>, tightness))
  IN  RMax(<<5, 100>>, RMin(<<75, 100>>, fold_p))

estimate_fold_probability(villain_top_frac, raise_to, pot) ==
  LET tightness == RSub(<<1, 1>>, villain_top_frac)
      r == Rat(raise_to, Max(1, pot))
      size_term == RMin(<<1, 1>>, RMul(<<35, 100>>, r))
      base == RAdd(RMul(<<40, 100>>, villain_top_frac), <<10, 100>>)
      fold_p == RSub(RAdd(base, size_term), RMul(<<25, 100>>, tightness))
  IN  RMax(<<5, 100>>, RMin(<<75, 100>>, fold_p))

ev_of_raise(eq_when_called, fold_p, pot, invest) ==
  LET pot_if_called == pot + 2 * invest
  IN  RAdd(RMul(fold_p, RInt(pot)),
           RMul(RSub(<<1, 1>>, fold_p),
                RSub(RMul(eq_when_called, RInt(pot_if_called)),
                     RMul(RSub(<<1, 1>>, eq_when_called), RInt(invest)))))

(* ------------------------------ bot policy ----------------------------- *)
\* The BotParams defaults.  The three frequencies (value_raise_freq,
\* bluff_freq, jam_freq) lie strictly between 0 and 1, so each comparison
\* random.random() < freq can come out either way: it is a Boolean draw.
BotParams ==
  [call_edge |-> <<2, 100>>,
   value_raise_frac |-> <<45, 100>>,
   bluff_raise_frac |-> <<30, 100>>,
   jam_equity |-> <<82, 100>>]

\* state.can_complete_bet_or_raise_to(amt): the table engine's answer
can_complete_bet_or_raise_to(st, amt) == amt \in st.legal_raise_to

CanRaise(st) ==
  /\ st.min_to # None
  /\ st.max_to # None
  /\ st.min_to[1] <= st.max_to[1]
  /\ can_complete_bet_or_raise_to(st, st.min_to[1])

\* cca: the first of the probed attributes that is not None, else 0
CallAmount(st) == IF st.cca = None THEN 0 ELSE st.cca[1]
PotAmount(st) == IF st.pot = None THEN 0 ELSE st.pot[1]

RequiredEq(st) ==
  IF PotAmount(st) + CallAmount(st) > 0
    THEN Rat(CallAmount(st), PotAmount(st) + CallAmount(st))
    ELSE <<1, 1>>

VillainTopFrac(st) ==
  estimate_villain_top_frac(st.board_len, RequiredEq(st), CallAmount(st), PotAmount(st))

small_raise_to(st) ==
  IF CanRaise(st) /\ st.min_to # None /\ can_complete_bet_or_raise_to(st, st.min_to[1])
    THEN Some(st.min_to[1])
    ELSE None

big_raise_to_no_floor(st, frac_of_stack) ==
  IF ~CanRaise(st) \/ st.min_to = None \/ st.max_to = None THEN None
  ELSE LET target == RTrunc(RMul(RInt(st.stack), frac_of_stack))
           amt == Min(st.max_to[1], target)
       IN  IF can_complete_bet_or_raise_to(st, amt) THEN Some(amt) ELSE small_raise_to(st)

big_raise_to(st, frac_of_stack) ==
  IF ~CanRaise(st) \/ st.min_to = None \/ st.max_to = None THEN None
  ELSE LET target == RTrunc(RMul(RInt(st.stack), frac_of_stack))
           amt == Min(st.max_to[1], Max(st.min_to[1], target))
       IN  IF can_complete_bet_or_raise_to(st, amt) THEN Some(amt) ELSE small_raise_to(st)

\* big_raise_to(frac) or small_raise_to(): Python's "or" also skips an amount of 0
RaiseSize(st, frac) ==
  LET b == big_raise_to(st, frac)
  IN  IF b = None \/ b = Some(0) THEN small_raise_to(st) ELSE b

FoldOrCallUnchecked(st) == IF st.can_fold THEN <<"f", None>> ELSE <<"c", None>>

FoldAlways(st) == <<"f", None>>

\* lines 655-659
FoldOrCall(st) ==
  IF st.can_fold THEN <<"f", None>>
  ELSE IF st.can_check_or_call THEN <<"c", None>> ELSE <<"f", None>>

BluffOrFoldAnyRange(st, e, bluff_draw) ==
  LET amt == RaiseSize(st, BotParams.bluff_raise_frac)
  IN  IF /\ CanRaise(st)
         /\ bluff_draw
         /\ amt # None
         /\ RGt(ev_of_raise(e,
                            estimate_fold_probability(VillainTopFrac(st), amt[1], PotAmount(st)),
                            PotAmount(st), amt[1]),
                <<0, 1>>)
        THEN <<"r", amt>>
        ELSE FoldOrCall(st)

\* lines 641-653, falling through to 655-659
BluffOrFold(st, e, bluff_draw) ==
  LET amt == RaiseSize(st, BotParams.bluff_raise_frac)
  IN  IF /\ CanRaise(st)
         /\ bluff_draw
         /\ RGe(VillainTopFrac(st), <<18, 100>>)
         /\ amt # None
         /\ RGt(ev_of_raise(e,
                            estimate_fold_probability(VillainTopFrac(st), amt[1], PotAmount(st)),
                            PotAmount(st), amt[1]),
                <<0, 1>>)
        THEN <<"r", amt>>
        ELSE FoldOrCall(st)

CallOrBluffNoEdge(st, e, bluff_draw) ==
  IF st.can_check_or_call /\ RGe(e, RequiredEq(st))
    THEN <<"c", None>>
    ELSE BluffOrFold(st, e, bluff_draw)

\* lines 633-639, falling through to the bluff
CallOrBluff(st, e, bluff_draw) ==
  IF st.can_check_or_call /\ RGe(e, RAdd(RequiredEq(st), BotParams.call_edge))
    THEN <<"c", None>>
    ELSE BluffOrFold(st, e, bluff_draw)

\* lines 621-631
ValueRaise(st, e, jam_draw, value_draw, bluff_draw) ==
  LET amt == RaiseSize(st, BotParams.value_raise_frac)
  IN  IF /\ RGe(e, BotParams.jam_equity)
         /\ jam_draw
         /\ st.max_to # None
         /\ can_complete_bet_or_raise_to(st, st.max_to[1])
        THEN <<"a", None>>
      ELSE IF value_draw /\ amt # None
        THEN <<"r", amt>>
      ELSE CallOrBluff(st, e, bluff_draw)

FreeCheckAnyEquity(st, e, value_draw) ==
  LET amt == RaiseSize(st, BotParams.value_raise_frac)
  IN  IF CanRaise(st) /\ value_draw /\ amt # None
        THEN <<"r", amt>>
        ELSE <<"c", None>>

\* lines 613-619
FreeCheck(st, e, value_draw) ==
  LET amt == RaiseSize(st, BotParams.value_raise_frac)
  IN  IF CanRaise(st) /\ RGe(e, <<62, 100>>) /\ value_draw /\ amt # None
        THEN <<"r", amt>>
        ELSE <<"c", None>>

\* e is the equity estimate_equity_vs_range returned; the draws are the
\* outcomes of the random.random() < freq comparisons.
choose_bot_action(st, e, jam_draw, value_draw, bluff_draw) ==
  IF st.actor_index = None THEN <<"c", None>>
  ELSE IF CallAmount(st) = 0 /\ st.can_check_or_call
    THEN FreeCheck(st, e, value_draw)
  ELSE IF CanRaise(st) /\ RGe(e, RMax(<<70, 100>>, RAdd(RequiredEq(st), <<12, 100>>)))
    THEN ValueRaise(st, e, jam_draw, value_draw, bluff_draw)
  ELSE CallOrBluff(st, e, bluff_draw)

(* --------------------------- the bot's turn ---------------------------- *)
\* Values the table engine can report.  With no player to act the engine
\* answers every legality question with False and reports no amounts.
RaiseAmounts == 0..2
OptRaiseAmounts == {None} \cup {Some(a) : a \in RaiseAmounts}
CallAmounts == {None, Some(0), Some(1)}
PotAmounts == {Some(0), Some(1), Some(3)}
StackAmounts == {3, 7}
BoardLens == {0, 5}
\* equities the estimator can return: (wins + 0.5 * ties) / trials
EquityVals ==
  {<<0, 1>>, <<1, 3>>, <<1, 2>>, <<13, 25>>, <<31, 50>>, <<7, 10>>, <<41, 50>>, <<1, 1>>}

Snapshots ==
  [actor_index : {Some(1)}, can_fold : BOOLEAN, can_check_or_call : BOOLEAN,
   min_to : OptRaiseAmounts, max_to : OptRaiseAmounts,
   legal_raise_to : SUBSET RaiseAmounts,
   cca : CallAmounts, pot : PotAmounts, stack : StackAmounts, board_len : BoardLens]
  \cup
  [actor_index : {None}, can_fold : {FALSE}, can_check_or_call : {FALSE},
   min_to : {None}, max_to : {None}, legal_raise_to : {{}},
   cca : {None}, pot : PotAmounts, stack : StackAmounts, board_len : BoardLens]

(* ------------------------- equity estimators --------------------------- *)
max_pick_attempts == 40

\* The model deals from a nine-card part of the deck (three ranks in three
\* suits): enough for hero, villain and a full board, and few enough for
\* every shuffle to be enumerated.
DealtRanks == {"2", "7", "A"}
DealtSuits == {"C", "D", "H"}
Dealt(c) == c[1] \in DealtRanks /\ c[2] \in DealtSuits

HeroHole == << <<"A", "C">>, <<"7", "C">> >>
KnownVillainHole == << <<"A", "H">>, <<"2", "H">> >>
BoardCards == << <<"2", "C">>, <<"7", "D">>, <<"A", "D">>, <<"2", "D">>, <<"7", "H">> >>

SeqSet(q) == {q[i] : i \in 1..Len(q)}
Prefix(q, n) == SubSeq(q, 1, Min(n, Len(q)))

\* [c for c in deck if c not in known_codes]
_remaining_deck_excluding(known_codes) ==
  SelectSeq(_all_deck_codes, LAMBDA c : Dealt(c) /\ c \notin known_codes)

\* every order rng.shuffle can leave the list in
Shuffles(q) == {[i \in 1..Len(q) |-> q[p[i]]] : p \in Permutations(1..Len(q))}

\* the for t in range(max_pick_attempts) loop, from attempt t on
RECURSIVE PickInRange(_, _, _)
PickInRange(smp, top_frac, t) ==
  IF t >= max_pick_attempts THEN None
  ELSE LET c1 == smp[((2 * t) % Len(smp)) + 1]
           c2 == smp[((2 * t + 1) % Len(smp)) + 1]
       IN  IF c1 = c2 THEN PickInRange(smp, top_frac, t + 1)
           ELSE IF _is_in_top_fraction(c1, c2, top_frac) THEN <<c1, c2>>
           ELSE PickInRange(smp, top_frac, t + 1)

PickVillainLastTwo(smp, top_frac) ==
  LET found == PickInRange(smp, top_frac, 0)
  IN  IF found = None THEN SubSeq(smp, Len(smp) - 1, Len(smp)) ELSE found

\* lines 421-436
PickVillain(smp, top_frac) ==
  LET found == PickInRange(smp, top_frac, 0)
  IN  IF found = None THEN Prefix(smp, 2) ELSE found

FillFromSample(smp, hole, need_board) == Prefix(smp, need_board)

\* lines 439-441: remaining = [c for c in sample if c not in villain_hole]
FillBoard(smp, hole, need_board) ==
  Prefix(SelectSeq(smp, LAMBDA c : c \notin SeqSet(hole)), need_board)

\* _complete_board_random, given the shuffled remaining deck
_complete_board_random(board_codes, shuffled) ==
  IF 5 - Len(board_codes) <= 0 THEN Prefix(board_codes, 5)
  ELSE board_codes \o Prefix(shuffled, 5 - Len(board_codes))

TallyTieCountsTwice(outcome, w, t) ==
  IF outcome = ">" THEN <<w + 1, t>>
  ELSE IF outcome = "==" THEN <<w + 1, t + 1>>
  ELSE <<w, t>>

\* if hero_hand > vil_hand: wins += 1 / elif hero_hand == vil_hand: ties += 1
Tally(outcome, w, t) ==
  IF outcome = ">" THEN <<w + 1, t>>
  ELSE IF outcome = "==" THEN <<w, t + 1>>
  ELSE <<w, t>>

\* return (wins + 0.5 * ties) / trials
EquityResult(w, t, n) ==
  IF n = 0 THEN <<"error", "ZeroDivisionError">>
  ELSE IF n > 0 THEN <<"value", Rat(2 * w + t, 2 * n)>>
  ELSE <<"value", Rat(-(2 * w + t), -(2 * n))>>

MaxTrials == 2
MaxBoardArg == 6
MaxChips == 4

EstimatorCalls ==
  [fn : {"estimate_equity_vs_range"}, trials : -1..MaxTrials,
   top_frac : {<<1, 10>>, <<1, 1>>}, board_len : {0, 3, 4, 5}]
  \cup
  [fn : {"estimate_equity_vs_known_hand"}, trials : -1..MaxTrials,
   top_frac : {None}, board_len : {0, 3, 4, 5}]

Board(c) == Prefix(BoardCards, c.board_len)

(* ------------------------- calls of the pure helpers ------------------- *)
TopFracArgs == {<<0, 1>>, <<1, 10>>, <<18, 100>>, <<1, 2>>, <<7, 10>>, <<1, 1>>}

PureCalls ==
  [fn : {"estimate_villain_top_frac"}, board_len : 0..MaxBoardArg,
   cca : 0..MaxChips, pot : 0..MaxChips]
  \cup
  [fn : {"estimate_fold_probability"}, villain_top_frac : TopFracArgs,
   raise_to : 0..MaxChips, pot : (-1)..MaxChips]
  \cup
  {c \in [fn : {"percentile"},
          c1 : SeqSet(_all_deck_codes), c2 : SeqSet(_all_deck_codes)] : c.c1 # c.c2}

(* ------------------------------ card parsing ---------------------------- *)
\* A card identifier is the text str(card): a sequence of characters.  The
\* alphabet has a rank in both cases, a suit, a character that is neither,
\* the brackets the parser knows about, and white space.
CardChars == {"A", "t", "s", "Z", "(", ")", "[", "]", " "}
MaxCardLen == 4
CardTexts == UNION {[1..n -> CardChars] : n \in 0..MaxCardLen}

\* str.upper() on one character
Upper(ch) ==
  CASE ch = "t" -> "T"
    [] ch = "s" -> "S"
    [] OTHER -> ch

RECURSIVE LStrip(_)
LStrip(s) == IF s # <<>> /\ Head(s) = " " THEN LStrip(Tail(s)) ELSE s

RECURSIVE RStrip(_)
RStrip(s) == IF s # <<>> /\ s[Len(s)] = " " THEN RStrip(SubSeq(s, 1, Len(s) - 1)) ELSE s

\* str.strip()
Strip(s) == RStrip(LStrip(s))

\* re.fullmatch(r"\[?\s*([2-9TJQKA])\s*([CDHS])\s*\]?", s, flags=re.IGNORECASE):
\* the two groups, or None
CardMatch(s) ==
  LET s1 == IF s # <<>> /\ Head(s) = "[" THEN Tail(s) ELSE s
      s2 == LStrip(s1)
      s3 == IF s2 # <<>> THEN LStrip(Tail(s2)) ELSE <<>>
      s4 == IF s3 # <<>> THEN LStrip(Tail(s3)) ELSE <<>>
  IN  IF /\ s2 # <<>>
         /\ s3 # <<>>
         /\ Upper(Head(s2)) \in {RANKS[i] : i \in 1..Len(RANKS)}
         /\ Upper(Head(s3)) \in {SUITS[i] : i \in 1..Len(SUITS)}
         /\ (s4 = <<>> \/ s4 = <<"]">>)
        THEN Some(<<Head(s2), Head(s3)>>)
        ELSE None

\* index of the first occurrence of ch in s (ch occurs in s)
FirstPos(s, ch) == CHOOSE i \in 1..Len(s) : s[i] = ch /\ \A j \in 1..(i - 1) : s[j] # ch

\* s.split("(", 1)[1].split(")", 1)[0].strip()
InsideParens(s) ==
  LET after == SubSeq(s, FirstPos(s, "(") + 1, Len(s))
      upto == IF ")" \in {after[i] : i \in 1..Len(after)}
                THEN SubSeq(after, 1, FirstPos(after, ")") - 1)
                ELSE after
  IN  Strip(upto)

\* _card_code: the code the card model hands on for the text of a card.  It
\* has no failing path: every text gives a string.
_card_code(card) ==
  LET s == Strip(card)
      m == CardMatch(s)
      chars == {s[i] : i \in 1..Len(s)}
  IN  IF m # None THEN <<"value", <<Upper(m[1][1]), Upper(m[1][2])>> >>
      ELSE IF "(" \in chars /\ ")" \in chars /\ Len(InsideParens(s)) >= 2
        THEN <<"value", <<Upper(InsideParens(s)[1]), Upper(InsideParens(s)[2])>> >>
      ELSE <<"value", s>>

\* _value_of: _RANK_TO_VALUE.get(code[0].upper(), 0); code[0] of an empty
\* string raises IndexError
_value_of(code) ==
  IF code = <<>> THEN <<"error", "IndexError">>
  ELSE IF Upper(code[1]) \in DOMAIN _RANK_TO_VALUE
    THEN <<"value", _RANK_TO_VALUE[Upper(code[1])]>>
  ELSE <<"value", 0>>

\* a code of one of the 52 cards
ValidCode(code) ==
  /\ Len(code) = 2
  /\ code[1] \in {RANKS[i] : i \in 1..Len(RANKS)}
  /\ code[2] \in {SUITS[i] : i \in 1..Len(SUITS)}

CardCalls == [fn : {"_card_code", "_value_of", "_remaining_deck_excluding"}, card : CardTexts]

(* --------------------- the cached percentile table --------------------- *)
\* Threads that call _preflop_percentile_table at the same time.
NumThreads == 3
Threads == 1..NumThreads

\* len(combos): the number of entries of the complete table
TableSize == Len(Combos)

\* The loop of lines 275-277 fills pct entry by entry; the model lets other
\* threads run between thirds of it.
FillChunk == (TableSize + 2) \div 3

VARIABLES
  state, eq, decision, pc, issued,                       \* a bot turn of play_one_hand
  est, trial, wins, ties, sample, villain_hole, full_board,  \* a run of an equity estimator
  epc, result,
  call, ret,                                             \* a call of a pure helper
  cache, tpc, filled, tret, builds                       \* threads calling _preflop_percentile_table

botVars == <<state, eq, decision, pc, issued>>
estVars == <<est, trial, wins, ties, sample, villain_hole, full_board, epc, result>>
pureVars == <<call, ret>>
tableVars == <<cache, tpc, filled, tret, builds>>
vars == <<botVars, estVars, pureVars, tableVars>>

BotIdle ==
  state = None /\ eq = None /\ decision = None /\ pc = "idle" /\ issued = <<>>

EstIdle ==
  /\ est = None /\ trial = 0 /\ wins = 0 /\ ties = 0
  /\ sample = <<>> /\ villain_hole = <<>> /\ full_board = <<>>
  /\ epc = "idle" /\ result = None

PureIdle == call = None /\ ret = None

TableIdle ==
  /\ cache = None
  /\ tpc = [th \in Threads |-> "idle"]
  /\ filled = [th \in Threads |-> 0]
  /\ tret = [th \in Threads |-> None]
  /\ builds = 0

(* ----------------------- Spec: the decision policy --------------------- *)
Init ==
  /\ state \in Snapshots
  /\ eq = None
  /\ decision = None
  /\ pc = "turn"
  /\ issued = <<>>
  /\ EstIdle
  /\ PureIdle
  /\ TableIdle

BotDecideIssuing ==
  /\ pc = "turn"
  /\ \E e \in EquityVals, jam_draw \in BOOLEAN, value_draw \in BOOLEAN, bluff_draw \in BOOLEAN :
       /\ eq' = IF state.actor_index = None THEN None ELSE Some(e)
       /\ decision' = Some(choose_bot_action(state, e, jam_draw, value_draw, bluff_draw))
       /\ issued' = Append(issued, [cmd |-> "check_or_call", amount |-> None, fallback |-> FALSE])
  /\ pc' = "decided"
  /\ UNCHANGED <<state, estVars, pureVars, tableVars>>

\* act, amt = choose_bot_action(state, bot_params)
BotDecide ==
  /\ pc = "turn"
  /\ \E e \in EquityVals, jam_draw \in BOOLEAN, value_draw \in BOOLEAN, bluff_draw \in BOOLEAN :
       /\ eq' = IF state.actor_index = None THEN None ELSE Some(e)
       /\ decision' = Some(choose_bot_action(state, e, jam_draw, value_draw, bluff_draw))
  /\ pc' = "decided"
  /\ UNCHANGED <<state, issued, estVars, pureVars, tableVars>>

DispatchTruthyAmount(st, d) ==
  LET act == d[1]
      amt == d[2]
  IN  IF act = "f" /\ st.can_fold THEN [cmd |-> "fold", amount |-> None, fallback |-> FALSE]
      ELSE IF act = "c" /\ st.can_check_or_call
        THEN [cmd |-> "check_or_call", amount |-> None, fallback |-> FALSE]
      ELSE IF act = "a"
        THEN IF st.max_to # None /\ can_complete_bet_or_raise_to(st, st.max_to[1])
               THEN [cmd |-> "complete_bet_or_raise_to", amount |-> st.max_to, fallback |-> FALSE]
               ELSE [cmd |-> "check_or_call", amount |-> None, fallback |-> TRUE]
      ELSE IF act = "r" /\ amt # None /\ amt # Some(0) /\ can_complete_bet_or_raise_to(st, amt[1])
        THEN [cmd |-> "complete_bet_or_raise_to", amount |-> amt, fallback |-> FALSE]
      ELSE IF st.can_check_or_call
        THEN [cmd |-> "check_or_call", amount |-> None, fallback |-> TRUE]
      ELSE [cmd |-> "fold", amount |-> None, fallback |-> TRUE]

\* play_one_hand, lines 789-834: the command sent to the engine for a decision
DispatchCommand(st, d) ==
  LET act == d[1]
      amt == d[2]
  IN  IF act = "f" /\ st.can_fold THEN [cmd |-> "fold", amount |-> None, fallback |-> FALSE]
      ELSE IF act = "c" /\ st.can_check_or_call
        THEN [cmd |-> "check_or_call", amount |-> None, fallback |-> FALSE]
      ELSE IF act = "a"
        THEN IF st.max_to # None /\ can_complete_bet_or_raise_to(st, st.max_to[1])
               THEN [cmd |-> "complete_bet_or_raise_to", amount |-> st.max_to, fallback |-> FALSE]
               ELSE [cmd |-> "check_or_call", amount |-> None, fallback |-> TRUE]
      ELSE IF act = "r" /\ amt # None /\ can_complete_bet_or_raise_to(st, amt[1])
        THEN [cmd |-> "complete_bet_or_raise_to", amount |-> amt, fallback |-> FALSE]
      ELSE IF st.can_check_or_call
        THEN [cmd |-> "check_or_call", amount |-> None, fallback |-> TRUE]
      ELSE [cmd |-> "fold", amount |-> None, fallback |-> TRUE]

\* play_one_hand reaches the dispatch only when there is an actor (lines
\* 721-723).  The engine's reaction to the command is outside the model.
Dispatch ==
  /\ pc = "decided"
  /\ state.actor_index # None
  /\ issued' = Append(issued, DispatchCommand(state, decision[1]))
  /\ pc' = "dispatched"
  /\ UNCHANGED <<state, eq, decision, estVars, pureVars, tableVars>>

Next == BotDecide \/ Dispatch

Spec == Init /\ [][Next]_vars

(* -------------------- SpecEquity: the equity estimators ---------------- *)
EquityInit ==
  /\ est \in EstimatorCalls
  /\ trial = 0 /\ wins = 0 /\ ties = 0
  /\ sample = <<>> /\ villain_hole = <<>> /\ full_board = <<>>
  /\ epc = "loop"
  /\ result = None
  /\ BotIdle
  /\ PureIdle
  /\ TableIdle

\* lines 417-418: sample = deck[:]; rng.shuffle(sample)
TrialShuffle ==
  /\ epc = "loop"
  /\ est.fn = "estimate_equity_vs_range"
  /\ trial < est.trials
  /\ sample' \in Shuffles(_remaining_deck_excluding(SeqSet(HeroHole) \cup SeqSet(Board(est))))
  /\ epc' = "shuffled"
  /\ UNCHANGED <<est, trial, wins, ties, villain_hole, full_board, result, botVars, pureVars, tableVars>>

\* lines 420-442: the villain hand and the completed board of this trial
TrialPick ==
  /\ epc = "shuffled"
  /\ villain_hole' = PickVillain(sample, est.top_frac)
  /\ full_board' = Board(est) \o FillBoard(sample, villain_hole', Max(0, 5 - Len(Board(est))))
  /\ epc' = "dealt"
  /\ UNCHANGED <<est, trial, wins, ties, sample, result, botVars, pureVars, tableVars>>

\* estimate_equity_vs_known_hand, line 362
TrialKnownBoard ==
  /\ epc = "loop"
  /\ est.fn = "estimate_equity_vs_known_hand"
  /\ trial < est.trials
  /\ \E shuffled \in Shuffles(_remaining_deck_excluding(
          SeqSet(HeroHole) \cup SeqSet(KnownVillainHole) \cup SeqSet(Board(est)))) :
       full_board' = _complete_board_random(Board(est), shuffled)
  /\ villain_hole' = KnownVillainHole
  /\ epc' = "dealt"
  /\ UNCHANGED <<est, trial, wins, ties, sample, result, botVars, pureVars, tableVars>>

\* The comparison of the two hands (the hand comparator is an external
\* library: any of its three answers) and the tally; the trial's locals are
\* overwritten by the next trial before they are read again.
TrialCompare ==
  /\ epc = "dealt"
  /\ \E outcome \in {">", "==", "<"} :
       /\ wins' = Tally(outcome, wins, ties)[1]
       /\ ties' = Tally(outcome, wins, ties)[2]
  /\ trial' = trial + 1
  /\ sample' = <<>> /\ villain_hole' = <<>> /\ full_board' = <<>>
  /\ epc' = "loop"
  /\ UNCHANGED <<est, result, botVars, pureVars, tableVars>>

\* the loop is over (range(trials) is empty for trials <= 0): the division
EquityReturn ==
  /\ epc = "loop"
  /\ trial >= est.trials
  /\ result' = EquityResult(wins, ties, est.trials)
  /\ epc' = "done"
  /\ UNCHANGED <<est, trial, wins, ties, sample, villain_hole, full_board, botVars, pureVars, tableVars>>

EquityNext == TrialShuffle \/ TrialPick \/ TrialKnownBoard \/ TrialCompare \/ EquityReturn

SpecEquity == EquityInit /\ [][EquityNext]_vars

(* ----------------------- SpecPure: the pure helpers -------------------- *)
PureInit ==
  /\ call \in PureCalls
  /\ ret = None
  /\ BotIdle
  /\ EstIdle
  /\ TableIdle

CallTopFrac ==
  /\ ret = None
  /\ call.fn = "estimate_villain_top_frac"
  /\ ret' = Some(estimate_villain_top_frac(
                   call.board_len,
                   IF call.pot + call.cca > 0 THEN Rat(call.cca, call.pot + call.cca) ELSE <<1, 1>>,
                   call.cca, call.pot))
  /\ UNCHANGED <<call, botVars, estVars, tableVars>>

CallFoldProbability ==
  /\ ret = None
  /\ call.fn = "estimate_fold_probability"
  /\ ret' = Some(estimate_fold_probability(call.villain_top_frac, call.raise_to, call.pot))
  /\ UNCHANGED <<call, botVars, estVars, tableVars>>

\* pct = _preflop_percentile_table(); pct.get(_combo_key(c1, c2), 0.0)
LookupPercentile ==
  /\ ret = None
  /\ call.fn = "percentile"
  /\ ret' = Some(PctGet(_combo_key(call.c1, call.c2)))
  /\ UNCHANGED <<call, botVars, estVars, tableVars>>

PureNext == CallTopFrac \/ CallFoldProbability \/ LookupPercentile

SpecPure == PureInit /\ [][PureNext]_vars

(* ------------------------ SpecCards: the card model -------------------- *)
CardsInit ==
  /\ call \in CardCalls
  /\ ret = None
  /\ BotIdle
  /\ EstIdle
  /\ TableIdle

\* _card_code(card)
ParseCard ==
  /\ ret = None
  /\ call.fn = "_card_code"
  /\ ret' = Some(_card_code(call.card))
  /\ UNCHANGED <<call, botVars, estVars, tableVars>>

\* _value_of(_card_code(card))
ValueOfCard ==
  /\ ret = None
  /\ call.fn = "_value_of"
  /\ ret' = Some(_value_of(_card_code(call.card)[2]))
  /\ UNCHANGED <<call, botVars, estVars, tableVars>>

\* _remaining_deck_excluding({_card_code(card)})
ExcludeCard ==
  /\ ret = None
  /\ call.fn = "_remaining_deck_excluding"
  /\ ret' = Some(<<"value", _remaining_deck_excluding({_card_code(call.card)[2]})>>)
  /\ UNCHANGED <<call, botVars, estVars, tableVars>>

CardsNext == ParseCard \/ ValueOfCard \/ ExcludeCard

SpecCards == CardsInit /\ [][CardsNext]_vars

(* ------------- SpecTable: concurrent calls of the cached table --------- *)
\* functools.lru_cache(maxsize=1) around _preflop_percentile_table.  The
\* wrapper looks the key up and, on a miss, calls the body without holding any
\* lock; what the body returns is stored afterwards unless another call has
\* stored a result in the meantime.  Threads are switched between the
\* bytecodes of the body.
TableInit ==
  /\ TableIdle
  /\ BotIdle
  /\ EstIdle
  /\ PureIdle

\* pct = _preflop_percentile_table(): the wrapper's lookup.  A hit returns the
\* cached table; a miss enters the body (lines 264-274).
TableCall(th) ==
  /\ tpc[th] = "idle"
  /\ IF cache # None
       THEN /\ tret' = [tret EXCEPT ![th] = cache]
            /\ tpc' = [tpc EXCEPT ![th] = "done"]
            /\ UNCHANGED builds
       ELSE /\ tpc' = [tpc EXCEPT ![th] = "body"]
            /\ builds' = builds + 1
            /\ UNCHANGED tret
  /\ UNCHANGED <<cache, filled, botVars, estVars, pureVars>>

\* lines 275-277: pct[key] = (idx + 1) / n for the next entries
TableFill(th) ==
  /\ tpc[th] = "body"
  /\ filled[th] < TableSize
  /\ filled' = [filled EXCEPT ![th] = Min(TableSize, filled[th] + FillChunk)]
  /\ UNCHANGED <<cache, tpc, tret, builds, botVars, estVars, pureVars>>

\* line 278: return pct, and the wrapper's store
TableReturn(th) ==
  /\ tpc[th] = "body"
  /\ filled[th] = TableSize
  /\ cache' = IF cache = None THEN Some(filled[th]) ELSE cache
  /\ tret' = [tret EXCEPT ![th] = Some(filled[th])]
  /\ tpc' = [tpc EXCEPT ![th] = "done"]
  /\ UNCHANGED <<filled, builds, botVars, estVars, pureVars>>

TableNext == \E th \in Threads : TableCall(th) \/ TableFill(th) \/ TableReturn(th)

SpecTable == TableInit /\ [][TableNext]_vars

(* ------------------------------ properties ----------------------------- *)
Decided == pc \in {"decided", "dispatched"}
Act == decision[1][1]
Amt == decision[1][2]

\* the engine's legality predicates applied to a decision
IsLegal(st, d) ==
  CASE d[1] = "f" -> st.can_fold
    [] d[1] = "c" -> st.can_check_or_call
    [] d[1] = "r" -> d[2] # None /\ can_complete_bet_or_raise_to(st, d[2][1])
    [] d[1] = "a" -> st.max_to # None /\ can_complete_bet_or_raise_to(st, st.max_to[1])
    [] OTHER -> FALSE

\* C1: whenever choose_bot_action returns a raise ('r', amt), amt lies within
\* the [minRaiseTo, maxRaiseTo] bounds the engine reports at that call.
C1_RaiseWithinBounds ==
  (Decided /\ Act = "r") =>
     /\ Amt # None
     /\ state.min_to # None
     /\ state.max_to # None
     /\ state.min_to[1] <= Amt[1]
     /\ Amt[1] <= state.max_to[1]

C1_Witness ==
  /\ Decided
  /\ Act = "r"
  /\ state.min_to[1] < Amt[1]
  /\ Amt[1] < state.max_to[1]

\* C2 as stated: on every snapshot, also with no current actor and with
\* neither fold nor check/call legal, the returned action is one the engine's
\* legality predicates allow.
C2_AlwaysLegal == Decided => IsLegal(state, decision[1])

\* C2, amended: the returned action is legal, except that with no current
\* actor the policy returns check/call without asking the engine, and with an
\* actor but neither fold nor check/call legal its last resort is fold.
C2_LegalOrLastResort ==
  Decided =>
     \/ IsLegal(state, decision[1])
     \/ (state.actor_index = None /\ decision[1] = <<"c", None>>)
     \/ /\ state.actor_index # None
        /\ ~state.can_fold
        /\ ~state.can_check_or_call
        /\ decision[1] = <<"f", None>>

C2_Witness ==
  /\ Decided
  /\ state.can_fold
  /\ state.can_check_or_call
  /\ Act = "a"
  /\ IsLegal(state, decision[1])

\* the profitable-call branch (lines 633-639) returned the check/call
ProfitableCallFired ==
  /\ state.actor_index # None
  /\ Act = "c"
  /\ ~(CallAmount(state) = 0 /\ state.can_check_or_call)
  /\ state.can_check_or_call
  /\ RGe(eq[1], RAdd(RequiredEq(state), BotParams.call_edge))

NoBranchFired == Decided /\ Act \in {"f", "c"} /\ ~ProfitableCallFired

\* fold if legal and facing a nonzero call; else check/call if legal; else fold
SafeDefault(st) ==
  IF st.can_fold /\ CallAmount(st) # 0 THEN <<"f", None>>
  ELSE IF st.can_check_or_call THEN <<"c", None>>
  ELSE <<"f", None>>

Decisions ==
  ({"f", "c", "a"} \X {None}) \cup ({"r"} \X {Some(a) : a \in RaiseAmounts})

C4_CallNeedsEdge ==
  /\ (Decided /\ CallAmount(state) > 0 /\ state.can_fold /\ Act = "c") =>
        /\ state.can_check_or_call
        /\ RGe(eq[1], RAdd(Rat(CallAmount(state), PotAmount(state) + CallAmount(state)),
                           <<2, 100>>))
  /\ (/\ Decided
      /\ CallAmount(state) > 0
      /\ state.can_fold
      /\ 2 * CallAmount(state) = PotAmount(state) + CallAmount(state)
      /\ eq = Some(<<1, 2>>)) => Act # "c"

C4_Witness ==
  /\ Decided
  /\ CallAmount(state) > 0
  /\ state.can_fold
  /\ 2 * CallAmount(state) = PotAmount(state) + CallAmount(state)
  /\ eq = Some(<<13, 25>>)
  /\ Act = "c"

\* C5: in every trial of estimate_equity_vs_range the hero's two cards, the
\* sampled villain's two cards and the five board cards are nine distinct
\* cards, for every shuffle and every board length in {0, 3, 4, 5}.
C5_NineDistinctCards ==
  (epc = "dealt" /\ est.fn = "estimate_equity_vs_range") =>
     /\ Len(villain_hole) = 2
     /\ Len(full_board) = 5
     /\ villain_hole[1] # villain_hole[2]
     /\ Cardinality(SeqSet(HeroHole) \cup SeqSet(villain_hole) \cup SeqSet(full_board)) = 9

\* the villain hand is the pair that wraps around the end of the shuffled list
C5_Witness ==
  /\ epc = "dealt"
  /\ est.fn = "estimate_equity_vs_range"
  /\ est.board_len = 0
  /\ villain_hole = <<sample[Len(sample)], sample[1]>>

\* C6: for trials >= 1 the estimators return (wins + 0.5 * ties) / trials,
\* a value in [0, 1], and wins + ties never exceeds the trials run.
C6_EquityInUnitInterval ==
  /\ epc \in {"loop", "shuffled", "dealt", "done"} => wins + ties <= trial
  /\ (epc = "done" /\ est.trials >= 1) =>
        /\ wins + ties <= est.trials
        /\ result[1] = "value"
        /\ 2 * est.trials * result[2][1] = (2 * wins + ties) * result[2][2]
        /\ RGe(result[2], <<0, 1>>)
        /\ RLe(result[2], <<1, 1>>)

C6_Witness ==
  /\ epc = "done"
  /\ est.fn = "estimate_equity_vs_range"
  /\ est.top_frac = <<1, 1>>
  /\ est.trials = 2
  /\ wins = 1
  /\ ties = 1
  /\ result = <<"value", <<3, 4>> >>

\* C7: an estimator called with trials <= 0 fails and never returns a numeric
\* equity.  Any raised error is accepted here as the failure the claim asks
\* for, so that only a returned number violates the formula.
C7_NonPositiveTrialsRejected ==
  (epc = "done" /\ est.trials <= 0) => result[1] = "error"

\* C8: estimate_fold_probability is non-decreasing in raiseTo for fixed pot
\* and topFrac and stays within [0.05, 0.75], also for pot <= 0 and raiseTo 0.
C8_FoldProbabilityMonotoneBounded ==
  (ret # None /\ call.fn = "estimate_fold_probability") =>
     /\ RGe(ret[1], <<5, 100>>)
     /\ RLe(ret[1], <<75, 100>>)
     /\ \A lower \in 0..call.raise_to :
          RLe(estimate_fold_probability(call.villain_top_frac, lower, call.pot), ret[1])

C8_Witness ==
  /\ ret # None
  /\ call.fn = "estimate_fold_probability"
  /\ call.pot <= 0
  /\ call.raise_to > 0
  /\ RLt(estimate_fold_probability(call.villain_top_frac, 0, call.pot), ret[1])
  /\ RLt(ret[1], <<75, 100>>)

\* C9: estimate_villain_top_frac returns a value in [0.10, 0.70] for every
\* board length, call amount and pot, also when pot + callAmount = 0.
C9_TopFracClamped ==
  (ret # None /\ call.fn = "estimate_villain_top_frac") =>
     RGe(ret[1], <<10, 100>>) /\ RLe(ret[1], <<70, 100>>)

C9_Witness ==
  /\ ret # None
  /\ call.fn = "estimate_villain_top_frac"
  /\ call.pot + call.cca = 0
  /\ call.board_len \notin {0, 3, 4, 5}
  /\ ret = Some(<<1, 2>>)

\* C10: every one of the C(52,2) hole pairs has a percentile in (0, 1], and
\* a pair with a strictly higher strength score never has a strictly lower
\* percentile than another pair.
C10_PercentileMonotone ==
  (ret # None /\ call.fn = "percentile") =>
     /\ Cardinality({Combos[m].key : m \in 1..Len(Combos)}) = 1326
     /\ RGt(ret[1], <<0, 1>>)
     /\ RLe(ret[1], <<1, 1>>)
     /\ \A m \in 1..Len(Combos) :
          /\ _preflop_strength_score(call.c1, call.c2) > Combos[m].score
               => RGe(ret[1], PctOfCombo[m])
          /\ _preflop_strength_score(call.c1, call.c2) < Combos[m].score
               => RLe(ret[1], PctOfCombo[m])

C10_Witness ==
  /\ ret # None
  /\ call.fn = "percentile"
  /\ ~StrLe(call.c1, call.c2)
  /\ \E m \in 1..Len(Combos) :
       /\ _preflop_strength_score(call.c1, call.c2) > Combos[m].score
       /\ RGt(ret[1], PctOfCombo[m])
  /\ \E m \in 1..Len(Combos) :
       /\ _preflop_strength_score(call.c1, call.c2) < Combos[m].score
       /\ RLt(ret[1], PctOfCombo[m])

\* C11: a card identifier that does not parse into one of the 52 rank/suit
\* codes makes the card model fail: whenever _card_code, _value_of or
\* _remaining_deck_excluding returns a value, the code it worked on is the code
\* of a card.
C11_MalformedCardRejected ==
  (call # None /\ call.fn \in {"_card_code", "_value_of", "_remaining_deck_excluding"}
     /\ ret # None /\ ret[1][1] = "value")
    => ValidCode(_card_code(call.card)[2])

\* C12: with several threads calling _preflop_percentile_table before it has
\* been built, the table-building body runs at most once, and every caller
\* gets the complete table of 1326 entries.
C12_TableBuiltOnce ==
  /\ builds <= 1
  /\ \A th \in Threads : tpc[th] = "done" => tret[th] = Some(1326)

\* C13: choose_bot_action only queries the engine.  The step that takes the
\* decision leaves the engine's snapshot (pot, stacks, board, actor, legality
\* predicates) as it was and issues no command; a command is issued only by
\* the dispatch of play_one_hand, after the decision.
C13_DecideOnlyQueries ==
  [][/\ state' = state
     /\ (pc = "turn" => issued' = issued)
     /\ (issued' # issued => (pc = "decided" /\ pc' = "dispatched"))]_vars

C13_Witness ==
  /\ pc = "decided"
  /\ state.actor_index # None
  /\ Act = "r"
  /\ issued = <<>>

\* C14: with call amount 0 and check/call legal, the decision is check or a
\* raise, never fold or all-in; a raise only if raising is legal and equity
\* >= 0.62; check when equity < 0.62, when raising is illegal, and whenever the
\* valueRaiseFreq draw fails.
C14_FreeCheck ==
  (Decided /\ state.actor_index # None /\ CallAmount(state) = 0 /\ state.can_check_or_call) =>
     /\ Act \in {"c", "r"}
     /\ Act = "r" => (CanRaise(state) /\ RGe(eq[1], <<62, 100>>))
     /\ (RLt(eq[1], <<62, 100>>) \/ ~CanRaise(state)) => decision[1] = <<"c", None>>
     /\ \A jam_draw \in BOOLEAN, bluff_draw \in BOOLEAN :
          choose_bot_action(state, eq[1], jam_draw, FALSE, bluff_draw) = <<"c", None>>

C14_Witness ==
  /\ Decided
  /\ state.actor_index # None
  /\ CallAmount(state) = 0
  /\ state.can_check_or_call
  /\ state.can_fold
  /\ eq = Some(<<31, 50>>)
  /\ Act = "r"

\* C15: facing a bet (call amount > 0) with equity below
\* max(0.70, requiredEquity + 0.12), a raise ('r', amt) is returned only if
\* raising is legal, the inferred topFrac is >= 0.18 and
\* evOfRaise(equity, foldProbability(topFrac, amt, pot), pot, amt) > 0.
C15_BluffNeedsPositiveEV ==
  (/\ Decided
   /\ state.actor_index # None
   /\ CallAmount(state) > 0
   /\ RLt(eq[1], RMax(<<70, 100>>, RAdd(RequiredEq(state), <<12, 100>>)))
   /\ Act = "r") =>
     /\ CanRaise(state)
     /\ RGe(VillainTopFrac(state), <<18, 100>>)
     /\ Amt # None
     /\ RGt(ev_of_raise(eq[1],
                        estimate_fold_probability(VillainTopFrac(state), Amt[1], PotAmount(state)),
                        PotAmount(state), Amt[1]),
            <<0, 1>>)

C15_Witness ==
  /\ Decided
  /\ state.actor_index # None
  /\ CallAmount(state) > 0
  /\ RLt(eq[1], RMax(<<70, 100>>, RAdd(RequiredEq(state), <<12, 100>>)))
  /\ RLt(eq[1], <<1, 2>>)
  /\ Act = "r"
  /\ Amt[1] > 0

\* the for t in range(max_pick_attempts) loop, from attempt t on: the number
\* of candidate pairs it looks at before it stops
RECURSIVE PickAttempts(_, _, _)
PickAttempts(smp, top_frac, t) ==
  IF t >= max_pick_attempts THEN 0
  ELSE LET c1 == smp[((2 * t) % Len(smp)) + 1]
           c2 == smp[((2 * t + 1) % Len(smp)) + 1]
       IN  IF c1 # c2 /\ _is_in_top_fraction(c1, c2, top_frac) THEN 1
           ELSE 1 + PickAttempts(smp, top_frac, t + 1)

\* the candidate pair of attempt t (lines 425-426)
Candidate(smp, t) == <<smp[((2 * t) % Len(smp)) + 1], smp[((2 * t + 1) % Len(smp)) + 1]>>

\* some pair the loop looked at is in the range
SomeExaminedInRange(smp, top_frac) ==
  \E t \in 0..(PickAttempts(smp, top_frac, 0) - 1) :
     /\ Candidate(smp, t)[1] # Candidate(smp, t)[2]
     /\ _is_in_top_fraction(Candidate(smp, t)[1], Candidate(smp, t)[2], top_frac)

RangeTrialDealt == epc = "dealt" /\ est.fn = "estimate_equity_vs_range"

\* C16 as stated: each trial looks at no more than 40 candidate pairs and ends
\* with a 2-card villain hand, which is in the range whenever an examined pair
\* is, and is the first two cards of the shuffled remaining deck exactly when
\* no examined pair is in the range.
C16_FallbackExactlyWhenNoneInRange ==
  RangeTrialDealt =>
     /\ PickAttempts(sample, est.top_frac, 0) <= 40
     /\ Len(villain_hole) = 2
     /\ SomeExaminedInRange(sample, est.top_frac) =>
          _is_in_top_fraction(villain_hole[1], villain_hole[2], est.top_frac)
     /\ villain_hole = Prefix(sample, 2) <=> ~SomeExaminedInRange(sample, est.top_frac)

\* C16, amended: the same, with the villain hand being the first two cards of
\* the shuffled remaining deck whenever no examined pair is in the range (it
\* is those two cards as well when the first pair examined is in the range).
C16_BoundedPickWithFallback ==
  RangeTrialDealt =>
     /\ PickAttempts(sample, est.top_frac, 0) <= 40
     /\ Len(villain_hole) = 2
     /\ SomeExaminedInRange(sample, est.top_frac) =>
          _is_in_top_fraction(villain_hole[1], villain_hole[2], est.top_frac)
     /\ ~SomeExaminedInRange(sample, est.top_frac) => villain_hole = Prefix(sample, 2)
     /\ (villain_hole = Prefix(sample, 2) /\ SomeExaminedInRange(sample, est.top_frac)) =>
          PickAttempts(sample, est.top_frac, 0) = 1

C16_Witness ==
  /\ RangeTrialDealt
  /\ PickAttempts(sample, est.top_frac, 0) = 40
  /\ ~SomeExaminedInRange(sample, est.top_frac)
  /\ villain_hole = Prefix(sample, 2)

\* C17: on a bot turn in which fold or check/call is legal, exactly one engine
\* command is issued and it is the decided one: 'f' -> fold(), 'c' ->
\* check_or_call(), ('r', amt) -> complete_bet_or_raise_to(amt), 'a' ->
\* complete_bet_or_raise_to(maxRaiseTo); no fallback branch of the dispatcher
\* is reached.
C17_DispatchIssuesDecision ==
  (pc = "dispatched" /\ (state.can_fold \/ state.can_check_or_call)) =>
     /\ Len(issued) = 1
     /\ ~issued[1].fallback
     /\ Act = "f" => issued[1] = [cmd |-> "fold", amount |-> None, fallback |-> FALSE]
     /\ Act = "c" => issued[1] = [cmd |-> "check_or_call", amount |-> None, fallback |-> FALSE]
     /\ Act = "r" =>
          issued[1] = [cmd |-> "complete_bet_or_raise_to", amount |-> Amt, fallback |-> FALSE]
     /\ Act = "a" =>
          issued[1] = [cmd |-> "complete_bet_or_raise_to", amount |-> state.max_to,
                       fallback |-> FALSE]

C17_Witness ==
  /\ pc = "dispatched"
  /\ state.can_fold
  /\ decision[1] = <<"r", Some(0)>>
  /\ issued = <<[cmd |-> "complete_bet_or_raise_to", amount |-> Some(0), fallback |-> FALSE]>>

====
